---- MODULE Spec2Model ----
(***************************************************************************)
(* Model of the mass-regression notebook (mass_regression_lecture5.ipynb): *)
(* the four-vector sampler get_data, the target scaling scale_target, the  *)
(* training step train_step and the driver train_loop.                     *)
(*                                                                         *)
(* Numbers.  A float value v is the integer v * Unit ("ticks").  A float64 *)
(* lives on the tick grid; a float32 lives on the coarser grid of the      *)
(* multiples of F32Step ticks, and astype(np.float32) and every float32    *)
(* operation round to the nearest such multiple (ties to even), as IEEE    *)
(* arithmetic rounds to the nearest representable value.  Unit and F32Step *)
(* are chosen so that the literals of the notebook fall on the grids as    *)
(* they do in IEEE: 0.0, 1.0, 2.5, 100.0 and 200.0 are float32 values,     *)
(* math.pi is not, and float32(math.pi) > math.pi.  Float32 resolves more  *)
(* finely at small magnitudes: the parameters of the network and the       *)
(* learning rates are counted in ticks of 1/WUnit, the relative errors of  *)
(* the evaluation in ticks of 1/ErrUnit.                                   *)
(*                                                                         *)
(* Randomness.  np.random is a seeded generator: its state is the position *)
(* rng in a fixed stream Mix, and a draw of k values reads k stream        *)
(* entries and advances rng by k.  The only nondeterminism of a run is the *)
(* initial generator state (and the initial weights of the network).       *)
(***************************************************************************)
EXTENDS Integers, Sequences, FiniteSets, TLC

\* ------------------------------------------------------------------ bounds
MaxSeed == 7
MaxN == 3
UDen == 8
MaxLoops == 3
MaxStart == 2
MaxCalls == 3
MaxIter == 2
TrainBatch == 2
TestBatch == 3
MaxV == 50
MaxArg == 5
MaxLayers == 3

\* ----------------------------------------------------------------- numbers
Unit == 120
F32Step == 3

Abs(x) == IF x < 0 THEN -x ELSE x

Sign(x) == IF x < 0 THEN -1 ELSE IF x > 0 THEN 1 ELSE 0

\* a / b (b > 0) rounded to the nearest integer, ties to even
RoundDiv(a, b) ==
   LET q == a \div b
       r == a % b
   IN  IF 2 * r > b \/ (2 * r = b /\ q % 2 = 1) THEN q + 1 ELSE q

\* x.astype(np.float32) of one value
Round32(x) == F32Step * RoundDiv(x, F32Step)

astype32(a) == [i \in 1..Len(a) |-> Round32(a[i])]

\* inf, -inf and nan: the float32 values that are not numbers, taken as one
\* value outside the grid.  Sums, differences and products with such an
\* operand are such a value again (inf * 0 is nan).
NonFinite == 2000000000

\* np.isfinite of one value
Finite(a) == a # NonFinite

\* a + b of two float32 values whose sum is on the grid
Add32(a, b) == IF Finite(a) /\ Finite(b) THEN a + b ELSE NonFinite

\* a - b of two float32 values whose difference is on the grid
Sub32(a, b) == IF Finite(a) /\ Finite(b) THEN a - b ELSE NonFinite

\* a * b of two float32 values
Mul32(a, b) ==
   IF Finite(a) /\ Finite(b)
   THEN F32Step * RoundDiv(a * b, F32Step * Unit)
   ELSE NonFinite

\* a / b of two float32 values, b a number: x / 0 is inf, -inf or nan and
\* raises nothing
Div32(a, b) ==
   IF Finite(a) /\ Finite(b) /\ b # 0
   THEN F32Step * RoundDiv(Sign(b) * a * Unit, F32Step * Abs(b))
   ELSE NonFinite

RECURSIVE SqrtSearch(_, _, _)
SqrtSearch(x, lo, hi) ==
   IF lo >= hi THEN lo
   ELSE LET mid == (lo + hi + 1) \div 2
        IN  IF mid * mid <= x THEN SqrtSearch(x, mid, hi)
            ELSE SqrtSearch(x, lo, mid - 1)

\* floor of the square root of x >= 0
SqrtFloor(x) == SqrtSearch(x, 0, 46340)

\* the float32 nearest to the square root of x (x in ticks squared)
Sqrt32(x) ==
   LET j == SqrtFloor(x) \div F32Step
       lo == F32Step * j
   IN  IF x >= lo * lo + lo * F32Step + 3 THEN lo + F32Step ELSE lo

\* math.pi (a float64; not a float32)
Pi64 == 377

\* np.cos and np.sin at the float32 angles -378, -375, ..., 378 ticks
CosTab ==
   <<
      -120, -120, -120, -120, -120, -120, -120, -117, -117, -117, -117, -117, -114, -114, -114, -111,
      -111, -111, -108, -108, -105, -105, -102, -102, -99, -99, -96, -93, -93, -90, -87, -87,
      -84, -81, -81, -78, -75, -72, -72, -69, -66, -63, -60, -57, -54, -54, -51, -48,
      -45, -42, -39, -36, -33, -30, -27, -24, -21, -18, -15, -12, -9, -6, -3, 0,
      3, 6, 9, 12, 15, 18, 21, 24, 27, 30, 33, 36, 39, 42, 42, 45,
      48, 51, 54, 57, 60, 63, 66, 66, 69, 72, 75, 78, 78, 81, 84, 87,
      87, 90, 93, 93, 96, 96, 99, 102, 102, 105, 105, 108, 108, 108, 111, 111,
      114, 114, 114, 114, 117, 117, 117, 117, 120, 120, 120, 120, 120, 120, 120, 120,
      120, 120, 120, 120, 120, 117, 117, 117, 117, 114, 114, 114, 114, 111, 111, 108,
      108, 108, 105, 105, 102, 102, 99, 96, 96, 93, 93, 90, 87, 87, 84, 81,
      78, 78, 75, 72, 69, 66, 66, 63, 60, 57, 54, 51, 48, 45, 42, 42,
      39, 36, 33, 30, 27, 24, 21, 18, 15, 12, 9, 6, 3, 0, -3, -6,
      -9, -12, -15, -18, -21, -24, -27, -30, -33, -36, -39, -42, -45, -48, -51, -54,
      -54, -57, -60, -63, -66, -69, -72, -72, -75, -78, -81, -81, -84, -87, -87, -90,
      -93, -93, -96, -99, -99, -102, -102, -105, -105, -108, -108, -111, -111, -111, -114, -114,
      -114, -117, -117, -117, -117, -117, -120, -120, -120, -120, -120, -120, -120
   >>
SinTab ==
   <<
      0, -3, -6, -9, -12, -15, -18, -21, -24, -27, -30, -33, -33, -36, -39, -42,
      -45, -48, -51, -54, -57, -60, -63, -63, -66, -69, -72, -75, -78, -78, -81, -84,
      -84, -87, -90, -90, -93, -96, -96, -99, -99, -102, -105, -105, -105, -108, -108, -111,
      -111, -114, -114, -114, -114, -117, -117, -117, -117, -120, -120, -120, -120, -120, -120, -120,
      -120, -120, -120, -120, -120, -120, -117, -117, -117, -117, -117, -114, -114, -114, -111, -111,
      -111, -108, -108, -105, -105, -102, -102, -99, -99, -96, -93, -93, -90, -87, -87, -84,
      -81, -81, -78, -75, -72, -69, -69, -66, -63, -60, -57, -54, -51, -48, -48, -45,
      -42, -39, -36, -33, -30, -27, -24, -21, -18, -15, -12, -9, -6, -3, 0, 3,
      6, 9, 12, 15, 18, 21, 24, 27, 30, 33, 36, 39, 42, 45, 48, 48,
      51, 54, 57, 60, 63, 66, 69, 69, 72, 75, 78, 81, 81, 84, 87, 87,
      90, 93, 93, 96, 99, 99, 102, 102, 105, 105, 108, 108, 111, 111, 111, 114,
      114, 114, 117, 117, 117, 117, 117, 120, 120, 120, 120, 120, 120, 120, 120, 120,
      120, 120, 120, 120, 117, 117, 117, 117, 114, 114, 114, 114, 111, 111, 108, 108,
      105, 105, 105, 102, 99, 99, 96, 96, 93, 90, 90, 87, 84, 84, 81, 78,
      78, 75, 72, 69, 66, 63, 63, 60, 57, 54, 51, 48, 45, 42, 39, 36,
      33, 33, 30, 27, 24, 21, 18, 15, 12, 9, 6, 3, 0
   >>

Cos32(a) == CosTab[(a + 378) \div F32Step + 1]

Sin32(a) == SinTab[(a + 378) \div F32Step + 1]

\* np.exp at the float32 values the generator's normal draws can take
Exp32(x) ==
   CASE x = -480 -> 3
     [] x = -300 -> 9
     [] x = -120 -> 45
     [] x = 0 -> 120
     [] x = 120 -> 327
     [] x = 300 -> 1461
     [] x = 480 -> 6552

\* np.arctan at the values of Exp32
ArcTan32(x) ==
   CASE x = 3 -> 3
     [] x = 9 -> 9
     [] x = 45 -> 42
     [] x = 120 -> 93
     [] x = 327 -> 147
     [] x = 1461 -> 180
     [] x = 6552 -> 186

\* --------------------------------------------------------------- generator
\* entry c of the generator's stream, a number in 0..250
Mix(c) ==
   LET r == c % 251
   IN  (r * r * r + 7 * r + 3) % 251

\* the generator state after k draws
Advance(s, k) == (s + k) % 251

\* a uniform draw computed as lo + hi * u
Uniform64Wide(lo, hi, c) == lo + RoundDiv(hi * (Mix(c) % UDen), UDen)

\* one value of np.random.uniform(lo, hi): lo + (hi - lo) * u with u in [0, 1)
Uniform64(lo, hi, c) == lo + RoundDiv((hi - lo) * (Mix(c) % UDen), UDen)

\* a sampler that delivers 0.0 from an interval of width zero
uniformZeroOnPoint(lo, hi, n, s) ==
   [i \in 1..n |-> IF lo = hi THEN 0 ELSE Uniform64(lo, hi, s + i - 1)]

\* np.random.uniform(lo, hi, n) read at generator state s
uniform(lo, hi, n, s) == [i \in 1..n |-> Uniform64(lo, hi, s + i - 1)]

\* standard normal deviates of the generator, as ticks
ZTab == <<-192, -120, -48, 0, 48, 120, 192>>

\* one value of np.random.normal(loc, scale): loc + scale * z
Normal64(loc, scale, c) == loc + RoundDiv(scale * ZTab[(Mix(c) % 7) + 1], Unit)

\* ---------------------------------------------------------------- get_data
\* the cut 2.5 on |eta| and the tolerated fraction 0.05 = 1 / OutlierInv
EtaCut == (5 * Unit) \div 2
OutlierInv == 20
EtaScale == (5 * Unit) \div 2

\* the cut with the comparison turned round
OutlierBelow(v) == Abs(v) < EtaCut

\* abs(eta) > 2.5 of one sample
Outlier(v) == Abs(v) > EtaCut

\* the boolean array abs(eta) > 2.5
Mask(eta) == [i \in 1..Len(eta) |-> Outlier(eta[i])]

\* np.sum(mask)
CountTrue(mask) == Cardinality({i \in 1..Len(mask) : mask[i]})

\* np.mean(abs(eta) > 2.5) > 0.05; the mean of an empty array is nan and
\* nan > 0.05 is False
LoopCond(eta) ==
   /\ Len(eta) > 0
   /\ OutlierInv * CountTrue(Mask(eta)) > Len(eta)

\* number of masked positions up to i
Rank(mask, i) == Cardinality({j \in 1..i : mask[j]})

\* eta[mask] = np.random.normal(0, 2.5, np.sum(mask)): the j-th masked
\* position takes the j-th draw, stored into the float32 array eta
Resample(eta, s) ==
   LET mask == Mask(eta)
   IN  [i \in 1..Len(eta) |->
          IF mask[i]
          THEN Round32(Normal64(0, EtaScale, s + Rank(mask, i) - 1))
          ELSE eta[i]]

\* np.empty_like(a): an array of the same shape whose content is whatever
\* the allocation holds
empty_like(a) == [1..Len(a) -> {0, EtaCut}]

\* np.zeros_like(a): the arrays the allocation can hold
zeros_like(a) == {[i \in 1..Len(a) |-> 0]}

\* the energy with the mass not squared
EnergyLinearMass(pv, mv) == Sqrt32(pv * pv + mv * Unit)

\* e = (p * p + m * m)**0.5
Energy(pv, mv) == Sqrt32(pv * pv + mv * mv)

\* theta = 2.0 * np.arctan(np.exp(-eta))
Theta(ev) == Round32(2 * ArcTan32(Exp32(-ev)))

\* pt = p * np.cos(theta)
Pt(pv, ev) == Mul32(pv, Cos32(Theta(ev)))

\* px = pt * np.cos(phi)
Px(pv, ev, fv) == Mul32(Pt(pv, ev), Cos32(fv))

\* py = pt * np.sin(phi)
Py(pv, ev, fv) == Mul32(Pt(pv, ev), Sin32(fv))

\* pz = p * np.sin(theta)
Pz(pv, ev) == Mul32(pv, Sin32(Theta(ev)))

\* the rows with eta and phi exchanged in the cylindrical basis
RowPhiBeforeEta(cartesian, pv, mv, ev, fv) ==
   IF cartesian
   THEN <<Energy(pv, mv), Px(pv, ev, fv), Py(pv, ev, fv), Pz(pv, ev)>>
   ELSE <<Energy(pv, mv), Pt(pv, ev), fv, ev>>

\* one row of np.stack(vec, axis=1)
Row(cartesian, pv, mv, ev, fv) ==
   IF cartesian
   THEN <<Energy(pv, mv), Px(pv, ev, fv), Py(pv, ev, fv), Pz(pv, ev)>>
   ELSE <<Energy(pv, mv), Pt(pv, ev), ev, fv>>

\* np.stack(vec, axis=1) over the batch
Stack(cartesian, p, m, eta, phi) ==
   [i \in 1..Len(p) |-> Row(cartesian, p[i], m[i], eta[i], phi[i])]

\* the notebook's data_spec
data_spec ==
   [min_p |-> 0, max_p |-> 200 * Unit, min_m |-> Unit \div 10,
    max_m |-> 100 * Unit, cartesian |-> TRUE]

\* get_batch = functools.partial(get_data, **data_spec), called as get_batch(n=n)
get_batch(n) == [n |-> n] @@ data_spec

\* ------------------------------------------------------------ scale_target
\* the float64 nearest to the square root of x (x in ticks)
Sqrt64(x) ==
   LET s == SqrtFloor(x * Unit)
   IN  IF x * Unit - s * s > s THEN s + 1 ELSE s

\* target_mu = 0.5 * (data_spec["min_m"] + data_spec["max_m"])
target_mu == RoundDiv(data_spec.min_m + data_spec.max_m, 2)

\* target_sigma = (data_spec["max_m"] - data_spec["min_m"]) / 12.0**0.5
target_sigma ==
   RoundDiv((data_spec.max_m - data_spec.min_m) * Unit, Sqrt64(12 * Unit))

\* the inverse map with the offset added before the multiplication
scale_targetOffsetFirst(target, rescale) ==
   IF rescale
   THEN Mul32(target + Round32(target_mu), Round32(target_sigma))
   ELSE Div32(target - Round32(target_mu), Round32(target_sigma))

\* scale_target(target, rescale) of one float32 value; the Python floats
\* target_mu and target_sigma enter the float32 arithmetic as float32
scale_target(target, rescale) ==
   IF rescale
   THEN Add32(Mul32(target, Round32(target_sigma)), Round32(target_mu))
   ELSE Div32(Sub32(target, Round32(target_mu)), Round32(target_sigma))

\* scale_target applied to an array
scale_array(a, rescale) == [i \in 1..Len(a) |-> scale_target(a[i], rescale)]


\* ------------------------------------------------------------- the network
(***************************************************************************)
(* model = get_model(n_inputs=4, n_layers=2, n_units=8): two hidden Dense  *)
(* layers with linear activation and a Dense output layer of one unit,     *)
(* without batch normalization.  Its trainable variables are the kernel    *)
(* and the bias of each Dense layer.  Keras and its Adam optimizer are     *)
(* library code: here a Dense layer has one unit, each trainable variable  *)
(* is one float32 number, and the first kernel weighs the sum of the four  *)
(* inputs.  Adam(learning_rate) has the decay rates of Keras, 0.9 and      *)
(* 0.999.  Its two moment estimates of a variable are the decayed sums of  *)
(* the gradients it has been given for the variable, so the optimizer is   *)
(* recorded by these gradients, oldest first, and the estimates and the    *)
(* step are computed from them; epsilon = 1e-7 is far below a tick.        *)
(* The parameters are float32 numbers of magnitude 1 and below, where      *)
(* float32 resolves far more finely than at the magnitude of a mass: they  *)
(* are counted in ticks of 1/WUnit, in which every learning rate the       *)
(* notebook passes is a whole number.                                      *)
(***************************************************************************)
\* ticks of a parameter or a learning rate per 1.0
WUnit == 3000

\* model.trainable_variables
trainable_variables == <<"k1", "b1", "k2", "b2", "k3", "b3">>

VarNames == {trainable_variables[j] : j \in 1..Len(trainable_variables)}

\* the kernels the initializers can draw; biases start at zero
InitWeights ==
   {[k1 |-> WUnit \div 40, b1 |-> 0, k2 |-> WUnit, b2 |-> 0,
     k3 |-> WUnit \div 10, b3 |-> 0],
    [k1 |-> -(WUnit \div 40), b1 |-> 0, k2 |-> WUnit \div 2, b2 |-> 0,
     k3 |-> WUnit \div 5, b3 |-> 0]}

\* the learning rates of the notebook's train_loop calls, in their order:
\* train_loop(300, 0.03), train_loop(300, 0.003), train_loop(2000, 0.001)
NotebookRates ==
   <<(3 * WUnit) \div 100, (3 * WUnit) \div 1000, WUnit \div 1000>>

\* def train_loop(n_iterations, learning_rate=0.003)
DefaultRate == (3 * WUnit) \div 1000

\* the learning rates train_loop is called with
LearningRates == {NotebookRates[j] : j \in 1..Len(NotebookRates)}

\* the learning rates a script passes in its k-th call: the notebook its
\* k-th rate, another caller any of them or float("inf")
RatesOf(script, k) ==
   IF script = "notebook" THEN {NotebookRates[k]}
   ELSE LearningRates \cup {NonFinite}

RECURSIVE SumSeq(_)
SumSeq(a) == IF a = <<>> THEN 0 ELSE a[1] + SumSeq(Tail(a))

\* tf.reduce_mean of a float32 vector
Mean32(a) ==
   IF \A i \in 1..Len(a) : Finite(a[i])
   THEN Round32(RoundDiv(SumSeq(a), Len(a)))
   ELSE NonFinite

\* a * k of a float32 a and a parameter k
MulW(a, k) ==
   IF Finite(a) /\ Finite(k)
   THEN Round32(RoundDiv(a * k, WUnit))
   ELSE NonFinite

\* a Dense layer with linear activation: a * kernel + bias
Dense(a, kernel, bias) == Add32(MulW(a, kernel), MulW(Unit, bias))

\* the input of the first layer for one row
RowSum(x) == x[1] + x[2] + x[3] + x[4]

Hidden1(w, x) == Dense(RowSum(x), w.k1, w.b1)

Hidden2(w, x) == Dense(Hidden1(w, x), w.k2, w.b2)

\* model(x)[:, 0] for one row
Forward(w, x) == Dense(Hidden2(w, x), w.k3, w.b3)

\* a forward pass that also moves the output bias
modelUpdating(w, x) ==
   [out |-> [i \in 1..Len(x) |-> Forward(w, x[i])],
    weights |-> [w EXCEPT !.b3 = @ + WUnit \div 10]]

\* model(x, training=...)[:, 0]: the prediction of each row, and the
\* parameters as the call leaves them
model(w, x) == [out |-> [i \in 1..Len(x) |-> Forward(w, x[i])], weights |-> w]

\* the mean absolute error in place of the mean squared error
loss_funcAbsolute(pred, truth) ==
   Mean32([i \in 1..Len(pred) |->
             IF Finite(pred[i]) THEN Abs(pred[i] - truth[i]) ELSE NonFinite])

\* loss_func(pred, truth): mse = (pred - truth)**2.0, averaged over the batch
loss_func(pred, truth) ==
   Mean32([i \in 1..Len(pred) |->
             Mul32(Sub32(pred[i], truth[i]), Sub32(pred[i], truth[i]))])

\* derivative of the prediction of row x with respect to variable v
DPred(w, x, v) ==
   CASE v = "b3" -> Unit
     [] v = "k3" -> Hidden2(w, x)
     [] v = "b2" -> MulW(Unit, w.k3)
     [] v = "k2" -> MulW(Hidden1(w, x), w.k3)
     [] v = "b1" -> MulW(MulW(Unit, w.k3), w.k2)
     [] v = "k1" -> MulW(MulW(RowSum(x), w.k3), w.k2)

\* tape.gradient(loss, sources): one gradient per source, in their order,
\* of the loss the tape recorded for batch (x, truth) at parameters w
gradient(w, x, truth, sources) ==
   [j \in 1..Len(sources) |->
      Mean32([i \in 1..Len(x) |->
                Mul32(Mul32(2 * Unit, Sub32(Forward(w, x[i]), truth[i])),
                      DPred(w, x[i], sources[j]))])]

\* a pairing that leaves out the last variable
zipShort(a, b) == [j \in 1..(Len(b) - 1) |-> <<a[j], b[j]>>]

\* zip(gradients, model.trainable_variables)
zip(a, b) ==
   [j \in 1..(IF Len(a) < Len(b) THEN Len(a) ELSE Len(b)) |-> <<a[j], b[j]>>]

\* an optimizer that resumes with the step count of an earlier run
AdamResumed(learning_rate) ==
   [lr |-> learning_rate, iterations |-> 1,
    given |-> [v \in VarNames |-> <<>>]]

\* tf.keras.optimizers.Adam(learning_rate): no step taken, both moment
\* estimates of every variable zero
Adam(learning_rate) ==
   [lr |-> learning_rate, iterations |-> 0,
    given |-> [v \in VarNames |-> <<>>]]

\* the gradients of a history are taken relative to the largest of them,
\* in MScale-ths: Adam's step depends on their ratios only
MScale == 500

RECURSIVE MaxAbs(_)
MaxAbs(h) ==
   IF h = <<>> THEN 0
   ELSE LET r == MaxAbs(Tail(h)) IN IF Abs(h[1]) > r THEN Abs(h[1]) ELSE r

Relative(h) == [i \in 1..Len(h) |-> RoundDiv(h[i] * MScale, MaxAbs(h))]

RECURSIVE Power(_, _)
Power(b, k) == IF k <= 0 THEN 1 ELSE b * Power(b, k - 1)

\* beta_2^k = 0.999^k in thousandths
RECURSIVE Decay2(_)
Decay2(k) == IF k <= 0 THEN 1000 ELSE RoundDiv(999 * Decay2(k - 1), 1000)

\* Adam's moment estimates after the gradients h, as it corrects them for
\* their start at zero: m / (1 - beta_1^t) as the fraction num / den, and
\* v / (1 - beta_2^t), for m = beta_1 * m + (1 - beta_1) * g and
\* v = beta_2 * v + (1 - beta_2) * g^2 with beta_1 = 0.9, beta_2 = 0.999
Moments(h) ==
   IF MaxAbs(h) = 0 THEN [num |-> 0, den |-> 1, v |-> 0]
   ELSE LET t == Len(h)
            r == Relative(h)
        IN  [num |-> SumSeq([i \in 1..t |-> Power(9, t - i) * Power(10, i - 1) * r[i]]),
             den |-> Power(10, t) - Power(9, t),
             v |-> RoundDiv(SumSeq([i \in 1..t |-> Decay2(t - i) * r[i] * r[i]]),
                            SumSeq([i \in 1..t |-> Decay2(t - i)]))]

\* Adam's step for a variable after the gradients h, the last of them the
\* one of this update: lr * m / (sqrt(v) + epsilon) with the corrected
\* estimates; a gradient or a rate that is not a number gives a step that
\* is not a number
AdamStep(lr, h) ==
   IF ~Finite(lr) \/ \E i \in 1..Len(h) : ~Finite(h[i]) THEN NonFinite
   ELSE IF MaxAbs(h) = 0 THEN 0
   ELSE LET e == Moments(h)
        IN  RoundDiv(lr * e.num * 10, e.den * SqrtFloor(100 * e.v))

\* the gradient paired with variable v, if any
PairsFor(pairs, v) == {j \in 1..Len(pairs) : pairs[j][2] = v}

\* the gradients optimizer o has been given for variable v once it has
\* taken those of pairs
GivenAfter(o, pairs, v) ==
   IF PairsFor(pairs, v) = {} THEN o.given[v]
   ELSE Append(o.given[v], pairs[CHOOSE j \in PairsFor(pairs, v) : TRUE][1])

\* an update that is skipped when a gradient is not a number
apply_gradientsFiniteOnly(o, w, pairs) ==
   IF \E j \in 1..Len(pairs) : ~Finite(pairs[j][1])
   THEN [opt |-> o, weights |-> w]
   ELSE [opt |->
           [lr |-> o.lr, iterations |-> o.iterations + 1,
            given |-> [v \in VarNames |-> GivenAfter(o, pairs, v)]],
         weights |->
           [v \in VarNames |->
              IF PairsFor(pairs, v) = {} THEN w[v]
              ELSE Sub32(w[v], AdamStep(o.lr, GivenAfter(o, pairs, v)))]]

\* optimizer.apply_gradients(pairs): the optimizer and the parameters after
\* one update
apply_gradients(o, w, pairs) ==
   [opt |->
      [lr |-> o.lr, iterations |-> o.iterations + 1,
       given |-> [v \in VarNames |-> GivenAfter(o, pairs, v)]],
    weights |->
      [v \in VarNames |->
         IF PairsFor(pairs, v) = {} THEN w[v]
         ELSE Sub32(w[v], AdamStep(o.lr, GivenAfter(o, pairs, v)))]]

(***************************************************************************)
(* A relative error has magnitude 1 and below and is counted in ticks of   *)
(* 1/ErrUnit.  The float32 quotient is cut toward zero to such a tick, so  *)
(* that it is below 0.10 in ticks exactly when it is below float32(0.10)   *)
(* in the code.  Where |pred - truth| is exactly a tenth of |truth| on the *)
(* grid, the errors of the float32 nearest to pred and to truth decide     *)
(* on which side of float32(0.10) the float32 quotient falls.              *)
(***************************************************************************)
\* ticks of a relative error per 1.0
ErrUnit == 10000

RECURSIVE Pow2(_)
Pow2(j) == IF j <= 0 THEN 1 ELSE 2 * Pow2(j - 1)

RECURSIVE ExponentFrom(_, _)
ExponentFrom(a, j) ==
   IF Unit * Pow2(j + 1) <= 128 * a THEN ExponentFrom(a, j + 1) ELSE j

\* 7 more than the binary exponent of the float32 a / Unit (a >= 1)
Exponent7(a) == ExponentFrom(a, 0)

\* float32(a / Unit) - a / Unit in fifteenths of the last bit of the
\* float32 (a >= 1): Unit is 8 * 15, so the 24-bit significand of a / Unit
\* is a * 2^k / 15 and is rounded to the nearest whole number
Err15(a) ==
   LET c == ((a % 15) * Pow2((27 - Exponent7(a)) % 4)) % 15
   IN  IF c <= 7 THEN -c ELSE 15 - c

\* for |pv - tv| = |tv| / 10: whether the float32 quotient of the float32
\* nearest to pv and to tv is below float32(0.10) in magnitude.  The
\* difference of the two float32 is exact; their quotient is 0.1 * (1 + r)
\* with r given by their relative errors, and is rounded below
\* float32(0.10) when r <= -3 * 2^-27
TieBelow(pv, tv) ==
   LET d == Abs(pv - tv)
       ep == Err15(Abs(pv)) * Pow2(Exponent7(Abs(pv)))
       et == Err15(Abs(tv)) * Pow2(Exponent7(Abs(tv)))
   IN  IF Abs(pv) > Abs(tv)
       THEN 10 * ep - 11 * et <= -30 * d
       ELSE 9 * et - 10 * ep <= -30 * d

\* a quotient that answers 0 where the true mass is 0
RelErrGuarded(pv, tv) ==
   IF Finite(pv) /\ Finite(tv)
   THEN IF tv = 0 THEN 0
        ELSE Sign(pv - tv) * Sign(tv) * ((Abs(pv - tv) * ErrUnit) \div Abs(tv))
   ELSE NonFinite

\* (pred - truth) / truth of one sample: x / 0 is inf, -inf or nan and
\* raises nothing
RelErr(pv, tv) ==
   IF Finite(pv) /\ Finite(tv) /\ tv # 0
   THEN LET d == Abs(pv - tv)
            q == (d * ErrUnit) \div Abs(tv)
        IN  Sign(pv - tv) * Sign(tv)
               * (IF 10 * d = Abs(tv) /\ TieBelow(pv, tv) THEN q - 1 ELSE q)
   ELSE NonFinite

\* rel_err = (pred - truth) / truth
rel_err(pred, truth) == [i \in 1..Len(pred) |-> RelErr(pred[i], truth[i])]

\* the count with the threshold included
WithinInclusive(err) ==
   Cardinality({i \in 1..Len(err) : Finite(err[i]) /\ Abs(err[i]) <= ErrUnit \div 10})

\* abs(rel_err) < 0.10, counted: the numerator of the printed fraction
Within(err) ==
   Cardinality({i \in 1..Len(err) : Finite(err[i]) /\ Abs(err[i]) < ErrUnit \div 10})

\* a loop that makes one pass too many
LoopContinuesInclusive(i, n_iterations) == i <= n_iterations

\* for i in range(n_iterations): another pass is due
LoopContinues(i, n_iterations) == i < n_iterations

\* --------------------------------------------------------------- get_model
\* the layers of Keras that get_model stacks
InputLayer(n) == [kind |-> "Input", units |-> n, activation |-> "none"]
BatchNormalization == [kind |-> "BatchNormalization", units |-> 0, activation |-> "none"]
DenseLayer(n, act) == [kind |-> "Dense", units |-> n, activation |-> act]
Activation(act) == [kind |-> "Activation", units |-> 0, activation |-> act]

\* the layers one pass of "for _ in range(n_layers)" appends
HiddenBlock(n_units, activation, batch_norm) ==
   <<DenseLayer(n_units, "linear")>>
      \o (IF batch_norm /\ activation # "relu" THEN <<BatchNormalization>> ELSE <<>>)
      \o <<Activation(activation)>>
      \o (IF batch_norm /\ activation = "relu" THEN <<BatchNormalization>> ELSE <<>>)

\* the layers range(k) passes append
RECURSIVE Repeat(_, _)
Repeat(block, k) == IF k <= 0 THEN <<>> ELSE block \o Repeat(block, k - 1)

\* a builder that keeps batch normalization for selu
get_modelSeluNormalized(a) ==
   <<InputLayer(a.n_inputs)>>
      \o (IF a.batch_norm_first THEN <<BatchNormalization>> ELSE <<>>)
      \o Repeat(HiddenBlock(a.n_units, a.activation, a.batch_norm), a.n_layers)
      \o <<DenseLayer(1, "linear")>>

\* get_model(n_inputs, n_layers, n_units, activation, kernel_initializer,
\* batch_norm_first, batch_norm): the layers of the model, input to output
get_model(a) ==
   LET batch_norm == IF a.activation = "selu" THEN FALSE ELSE a.batch_norm
   IN  <<InputLayer(a.n_inputs)>>
          \o (IF a.batch_norm_first THEN <<BatchNormalization>> ELSE <<>>)
          \o Repeat(HiddenBlock(a.n_units, a.activation, batch_norm), a.n_layers)
          \o <<DenseLayer(1, "linear")>>

\* ------------------------------------------- func (gradients notebook)
\* the gradients of q instead of those of f
funcGradientsOfQ(xv, yv, zv) ==
   LET q == Add32(xv, yv)
       f == Mul32(q, zv)
   IN  [f |-> f, gradients |-> <<Unit, Unit, 0>>]

\* func(x, y, z): q = x + y; f = q * z; return f, tf.gradients(f, [x, y, z]).
\* tf.gradients walks the graph back from f with df/df = 1: the product
\* hands 1 * z to q and 1 * q to z, the sum hands q's gradient to x and to y
func(xv, yv, zv) ==
   LET q == Add32(xv, yv)
       f == Mul32(q, zv)
       df == Unit
       dq == Mul32(df, zv)
       dz == Mul32(df, q)
   IN  [f |-> f, gradients |-> <<dq, dq, dz>>]

\* ------------------------------------------------------------------- state
VARIABLES
   pc,       \* position of the running script
   rng,      \* state of the np.random generator
   seed,     \* the state the generator was seeded with
   req,      \* the arguments of the get_data calls of the sampler script
   first,    \* result of the first get_data call of the sampler script
   second,   \* result of its second call, made from the same seed
   gpc,      \* position inside get_data
   args,     \* get_data's arguments
   p, m, phi, eta,   \* get_data's local arrays
   loops,    \* passes through the body of get_data's while loop
   drawn,    \* per sample: eta was assigned from a normal draw
   etaExit,  \* eta as the while loop left it
   ret,      \* the pair get_data returned
   v, scaled, there, back, forth,   \* the scaling script: a value and its images
   kin, rows,   \* the kinematics script: one sample and its two rows
   fin, fout,   \* the gradients notebook: func's arguments and what it returned
   gmin, gmout, \* get_model's arguments and the layers of the model it returned
   tpc,      \* position inside train_loop and train_step
   calls,    \* train_loop calls made so far
   n_iterations,  \* train_loop's argument
   it,       \* passes of train_loop's for loop completed
   weights,  \* the parameters of the module-level model
   optimizer,  \* the optimizer of the running train_loop call
   vec, truth,  \* the batch train_loop holds
   x, target,   \* train_step's arguments
   tpred, loss, gradients,  \* train_step's locals
   pred_raw, pred, err, within,  \* the evaluation's locals
   result,   \* the pair train_loop returned
   batches,  \* get_batch calls of the running train_loop call
   steps,    \* train_step calls of the running train_loop call
   applied,  \* apply_gradients calls of the running train_step call: the pairs
   updates,  \* apply_gradients calls of the running train_loop call
   wEntry    \* the parameters as the running train_step call found them

gdVars == <<gpc, args, p, m, phi, eta, loops, drawn, etaExit, ret>>
dataVars == <<seed, req, first, second>>
scaleVars == <<v, scaled, there, back, forth>>
funcVars == <<fin, fout>>
gmVars == <<gmin, gmout>>
kinVars == <<kin, rows, funcVars, gmVars>>
stepVars == <<x, target, tpred, loss, gradients, applied, wEntry>>
evalVars == <<pred_raw, pred, err, within, result>>
loopVars == <<calls, n_iterations, it, vec, truth, batches, steps, updates>>
tlVars == <<tpc, weights, optimizer, loopVars, stepVars, evalVars, scaleVars, kinVars>>
vars == <<pc, rng, dataVars, gdVars, tlVars>>

None == [none |-> TRUE]

\* the ranges the sampler script calls get_data with: the notebook's, a
\* momentum range of a single value, a massless range, a range whose
\* lower bounds are not float32 values, and a momentum range of a single
\* value that is not a float32
Ranges ==
   {[min_p |-> 0, max_p |-> 200 * Unit, min_m |-> Unit \div 10, max_m |-> 100 * Unit],
    [min_p |-> 50 * Unit, max_p |-> 50 * Unit, min_m |-> Unit \div 10, max_m |-> 100 * Unit],
    [min_p |-> 0, max_p |-> 200 * Unit, min_m |-> 0, max_m |-> 0],
    [min_p |-> 85, max_p |-> 200 * Unit, min_m |-> 85, max_m |-> 100 * Unit],
    [min_p |-> 85, max_p |-> 85, min_m |-> Unit \div 10, max_m |-> 100 * Unit]}

ArgSet ==
   {[n |-> n, cartesian |-> c] @@ r : n \in 0..MaxN, c \in BOOLEAN, r \in Ranges}

\* entry into get_data(n, min_p, max_p, min_m, max_m, cartesian)
GdCall(a) ==
   /\ gpc' = "draw_p"
   /\ args' = a
   /\ p' = <<>> /\ m' = <<>> /\ phi' = <<>> /\ eta' = <<>>
   /\ loops' = 0
   /\ drawn' = <<>>
   /\ etaExit' = <<>>
   /\ ret' = None

\* p = np.random.uniform(min_p, max_p, n).astype(np.float32)
DrawP ==
   /\ gpc = "draw_p"
   /\ p' = astype32(uniform(args.min_p, args.max_p, args.n, rng))
   /\ rng' = Advance(rng, args.n)
   /\ gpc' = "draw_m"
   /\ UNCHANGED <<pc, dataVars, tlVars, args, m, phi, eta, loops, drawn, etaExit, ret>>

\* m = np.random.uniform(min_m, max_m, n).astype(np.float32)
DrawM ==
   /\ gpc = "draw_m"
   /\ m' = astype32(uniform(args.min_m, args.max_m, args.n, rng))
   /\ rng' = Advance(rng, args.n)
   /\ gpc' = "draw_phi"
   /\ UNCHANGED <<pc, dataVars, tlVars, args, p, phi, eta, loops, drawn, etaExit, ret>>

\* phi = np.random.uniform(-math.pi, math.pi, n).astype(np.float32)
DrawPhi ==
   /\ gpc = "draw_phi"
   /\ phi' = astype32(uniform(-Pi64, Pi64, args.n, rng))
   /\ rng' = Advance(rng, args.n)
   /\ gpc' = "zeros"
   /\ UNCHANGED <<pc, dataVars, tlVars, args, p, m, eta, loops, drawn, etaExit, ret>>

\* eta = np.zeros_like(p)
EtaZeros ==
   /\ gpc = "zeros"
   /\ \E z \in zeros_like(p) : eta' = z
   /\ drawn' = [i \in 1..Len(p) |-> FALSE]
   /\ gpc' = "while"
   /\ UNCHANGED <<pc, rng, dataVars, tlVars, args, p, m, phi, loops, etaExit, ret>>

\* while np.mean(abs(eta) > 2.5) > 0.05: one test of the condition, and one
\* pass through the body when it holds; eta = eta.astype(np.float32) when
\* it does not
EtaWhile ==
   /\ gpc = "while"
   /\ IF LoopCond(eta)
      THEN /\ eta' = Resample(eta, rng)
           /\ rng' = Advance(rng, CountTrue(Mask(eta)))
           /\ drawn' = [i \in 1..Len(eta) |-> drawn[i] \/ Mask(eta)[i]]
           /\ loops' = IF loops < MaxLoops THEN loops + 1 ELSE loops
           /\ UNCHANGED <<gpc, etaExit>>
      ELSE /\ eta' = astype32(eta)
           /\ etaExit' = eta
           /\ gpc' = "derive"
           /\ UNCHANGED <<rng, drawn, loops>>
   /\ UNCHANGED <<pc, dataVars, tlVars, args, p, m, phi, ret>>

\* the derived quantities, np.stack(vec, axis=1) and the return
Derive ==
   /\ gpc = "derive"
   /\ ret' = [vec |-> Stack(args.cartesian, p, m, eta, phi), m |-> m]
   /\ gpc' = "ret"
   /\ UNCHANGED <<pc, rng, dataVars, tlVars, args, p, m, phi, eta, loops, drawn, etaExit>>

get_data == DrawP \/ DrawM \/ DrawPhi \/ EtaZeros \/ EtaWhile \/ Derive

\* ------------------------------------------------------- the sampler script
\* np.random.seed(s); first = get_data(...); np.random.seed(s);
\* second = get_data(...) with the same arguments
DataCall ==
   /\ pc = "call1"
   /\ GdCall(req)
   /\ pc' = "wait1"
   /\ UNCHANGED <<rng, dataVars, tlVars>>

DataReseed ==
   /\ pc = "wait1"
   /\ gpc = "ret"
   /\ first' = ret
   /\ rng' = seed
   /\ GdCall(req)
   /\ pc' = "wait2"
   /\ UNCHANGED <<seed, req, second, tlVars>>

DataDone ==
   /\ pc = "wait2"
   /\ gpc = "ret"
   /\ second' = ret
   /\ pc' = "done"
   /\ UNCHANGED <<rng, seed, req, first, gdVars, tlVars>>

GdIdle ==
   /\ gpc = "idle"
   /\ args = None
   /\ p = <<>> /\ m = <<>> /\ phi = <<>> /\ eta = <<>>
   /\ loops = 0
   /\ drawn = <<>>
   /\ etaExit = <<>>
   /\ ret = None


\* ---------------------------------------------------------------- train_loop
TlIdle ==
   /\ tpc = "idle"
   /\ calls = 0 /\ n_iterations = 0 /\ it = 0
   /\ optimizer = None
   /\ vec = <<>> /\ truth = <<>>
   /\ x = <<>> /\ target = <<>>
   /\ tpred = <<>> /\ loss = None /\ gradients = <<>>
   /\ pred_raw = <<>> /\ pred = <<>> /\ err = <<>> /\ within = 0
   /\ result = None
   /\ batches = 0 /\ steps = 0 /\ updates = 0
   /\ applied = <<>>
   /\ wEntry = None

FuncIdle == fin = None /\ fout = None /\ gmin = None /\ gmout = None

ScaleIdle ==
   /\ v = 0 /\ scaled = None /\ there = None /\ back = None /\ forth = None
   /\ kin = None /\ rows = None
   /\ FuncIdle

DataIdle == seed = rng /\ req = None /\ first = None /\ second = None

\* a notebook cell, or another caller, calls train_loop(n_iterations, learning_rate):
\* optimizer = tf.keras.optimizers.Adam(learning_rate); steps = trange(n_iterations)
TrainLoopCall ==
   /\ pc \in {"notebook", "caller"}
   /\ tpc \in {"idle", "returned"}
   /\ calls < MaxCalls
   /\ pc = "notebook" => calls < Len(NotebookRates)
   /\ \E k \in 0..MaxIter, lr \in RatesOf(pc, calls + 1) :
         /\ n_iterations' = k
         /\ optimizer' = Adam(lr)
   /\ calls' = calls + 1
   /\ it' = 0
   /\ vec' = <<>> /\ truth' = <<>>
   /\ x' = <<>> /\ target' = <<>>
   /\ tpred' = <<>> /\ loss' = None /\ gradients' = <<>>
   /\ pred_raw' = <<>> /\ pred' = <<>> /\ err' = <<>> /\ within' = 0
   /\ result' = None
   /\ batches' = 0 /\ steps' = 0 /\ updates' = 0
   /\ applied' = <<>>
   /\ wEntry' = None
   /\ tpc' = "for"
   /\ UNCHANGED <<pc, rng, dataVars, gdVars, weights, scaleVars, kinVars>>

\* for i in steps: vec, truth = get_batch(n=64); after the last pass:
\* vec, truth = get_batch(n=20000)
ForNext ==
   /\ tpc = "for"
   /\ IF LoopContinues(it, n_iterations)
      THEN /\ GdCall(get_batch(TrainBatch))
           /\ tpc' = "train_batch"
      ELSE /\ GdCall(get_batch(TestBatch))
           /\ tpc' = "test_batch"
   /\ batches' = batches + 1
   /\ UNCHANGED <<pc, rng, dataVars, weights, optimizer, calls, n_iterations, it,
                  vec, truth, steps, updates, stepVars, evalVars, scaleVars, kinVars>>

\* loss = train_step(vec, scale_target(truth), optimizer): the call
TrainStepCall ==
   /\ tpc = "train_batch"
   /\ gpc = "ret"
   /\ vec' = ret.vec
   /\ truth' = ret.m
   /\ x' = ret.vec
   /\ target' = scale_array(ret.m, FALSE)
   /\ steps' = steps + 1
   /\ applied' = <<>>
   /\ wEntry' = weights
   /\ tpred' = <<>> /\ gradients' = <<>>
   /\ tpc' = "ts_forward"
   /\ UNCHANGED <<pc, rng, dataVars, gdVars, weights, optimizer, calls, n_iterations,
                  it, batches, updates, loss, evalVars, scaleVars, kinVars>>

\* with tf.GradientTape() as tape: pred = model(x, training=True)[:, 0];
\* loss = tf.reduce_mean(loss_func(pred, truth))
TsForward ==
   /\ tpc = "ts_forward"
   /\ LET r == model(weights, x)
      IN  /\ tpred' = r.out
          /\ weights' = r.weights
          /\ loss' = loss_func(r.out, target)
   /\ tpc' = "ts_gradient"
   /\ UNCHANGED <<pc, rng, dataVars, gdVars, optimizer, loopVars, x, target,
                  gradients, applied, wEntry, evalVars, scaleVars, kinVars>>

\* gradients = tape.gradient(loss, model.trainable_variables)
TsGradient ==
   /\ tpc = "ts_gradient"
   /\ gradients' = gradient(weights, x, target, trainable_variables)
   /\ tpc' = "ts_apply"
   /\ UNCHANGED <<pc, rng, dataVars, gdVars, weights, optimizer, loopVars, x, target,
                  tpred, loss, applied, wEntry, evalVars, scaleVars, kinVars>>

\* optimizer.apply_gradients(zip(gradients, model.trainable_variables))
TsApply ==
   /\ tpc = "ts_apply"
   /\ LET pairs == zip(gradients, trainable_variables)
          r == apply_gradients(optimizer, weights, pairs)
      IN  /\ weights' = r.weights
          /\ optimizer' = r.opt
          /\ applied' = Append(applied, pairs)
   /\ updates' = updates + 1
   /\ tpc' = "ts_return"
   /\ UNCHANGED <<pc, rng, dataVars, gdVars, calls, n_iterations, it, vec, truth,
                  batches, steps, x, target, tpred, loss, gradients, wEntry,
                  evalVars, scaleVars, kinVars>>

\* return loss; back in train_loop: steps.set_postfix(...) and the next pass
TsReturn ==
   /\ tpc = "ts_return"
   /\ it' = it + 1
   /\ tpc' = "for"
   /\ UNCHANGED <<pc, rng, dataVars, gdVars, weights, optimizer, calls, n_iterations,
                  vec, truth, batches, steps, updates, stepVars, evalVars, scaleVars, kinVars>>

\* pred_raw = model(vec, training=False)[:, 0] on the held-out batch
TestPredict ==
   /\ tpc = "test_batch"
   /\ gpc = "ret"
   /\ vec' = ret.vec
   /\ truth' = ret.m
   /\ LET r == model(weights, ret.vec)
      IN  /\ pred_raw' = r.out
          /\ weights' = r.weights
   /\ tpc' = "rescale"
   /\ UNCHANGED <<pc, rng, dataVars, gdVars, optimizer, calls, n_iterations, it,
                  batches, steps, updates, stepVars, pred, err, within, result,
                  scaleVars, kinVars>>

\* pred = scale_target(pred_raw, rescale=True)
Rescale ==
   /\ tpc = "rescale"
   /\ pred' = scale_array(pred_raw, TRUE)
   /\ tpc' = "metric"
   /\ UNCHANGED <<pc, rng, dataVars, gdVars, weights, optimizer, loopVars, stepVars,
                  pred_raw, err, within, result, scaleVars, kinVars>>

\* rel_err = (pred - truth) / truth and the printed fraction
Metric ==
   /\ tpc = "metric"
   /\ err' = rel_err(pred, truth)
   /\ within' = Within(rel_err(pred, truth))
   /\ tpc' = "plots"
   /\ UNCHANGED <<pc, rng, dataVars, gdVars, weights, optimizer, loopVars, stepVars,
                  pred_raw, pred, result, scaleVars, kinVars>>

\* the three plots, and return pred, truth
PlotsReturn ==
   /\ tpc = "plots"
   /\ result' = [pred |-> pred, truth |-> truth]
   /\ tpc' = "returned"
   /\ UNCHANGED <<pc, rng, dataVars, gdVars, weights, optimizer, loopVars, stepVars,
                  pred_raw, pred, err, within, scaleVars, kinVars>>

train_step == TsForward \/ TsGradient \/ TsApply \/ TsReturn

train_loop ==
   ForNext \/ TrainStepCall \/ train_step \/ TestPredict \/ Rescale \/ Metric
      \/ PlotsReturn

\* ------------------------------------------------------- the scaling script
VStride == 99 * F32Step

\* scaled = scale_target(v); there = scale_target(v, rescale=True)
ScaleOnce ==
   /\ pc = "scale"
   /\ scaled' = scale_target(v, FALSE)
   /\ there' = scale_target(v, TRUE)
   /\ pc' = "scale_back"
   /\ UNCHANGED <<rng, dataVars, gdVars, tpc, weights, optimizer, loopVars, stepVars,
                  evalVars, kinVars, v, back, forth>>

\* back = scale_target(scaled, rescale=True); forth = scale_target(there)
ScaleBack ==
   /\ pc = "scale_back"
   /\ back' = scale_target(scaled, TRUE)
   /\ forth' = scale_target(there, FALSE)
   /\ pc' = "done"
   /\ UNCHANGED <<rng, dataVars, gdVars, tpc, weights, optimizer, loopVars, stepVars,
                  evalVars, kinVars, v, scaled, there>>

\* --------------------------------------------------- the kinematics script
\* the float32 values a uniform draw from [lo, hi) can deliver
UniformValues(lo, hi) == {Round32(lo + RoundDiv((hi - lo) * k, UDen)) : k \in 0..(UDen - 1)}

\* the float32 values a normal draw of get_data can deliver
NormalValues == {Round32(RoundDiv(EtaScale * ZTab[j], Unit)) : j \in 1..Len(ZTab)}

\* one sample (p, m, eta, phi) and its row in each basis
KinApply ==
   /\ pc = "kin"
   /\ rows' = [cart |-> Row(TRUE, kin.p, kin.m, kin.eta, kin.phi),
               cyl |-> Row(FALSE, kin.p, kin.m, kin.eta, kin.phi)]
   /\ pc' = "kin_done"
   /\ UNCHANGED <<rng, dataVars, gdVars, tpc, weights, optimizer, loopVars, stepVars,
                  evalVars, scaleVars, kin, funcVars, gmVars>>

\* --------------------------------------------------- the gradients notebook
\* the tf.constant values func is called with: whole numbers and fractions
FuncInputs == {Unit * j : j \in -MaxArg..MaxArg} \cup {-F32Step, F32Step, Unit \div 2}

\* f, gradients = func(x=tf.constant(..), y=tf.constant(..), z=tf.constant(..))
FuncCall ==
   /\ pc = "func"
   /\ fout' = func(fin.x, fin.y, fin.z)
   /\ pc' = "func_done"
   /\ UNCHANGED <<rng, dataVars, gdVars, tpc, weights, optimizer, loopVars, stepVars,
                  evalVars, scaleVars, kin, rows, fin, gmVars>>

\* ----------------------------------------------------- a get_model call
Activations == {"linear", "relu", "selu", "tanh"}

ModelArgs ==
   [n_inputs : {4}, n_layers : 0..MaxLayers, n_units : {1, 8},
    activation : Activations, batch_norm_first : BOOLEAN, batch_norm : BOOLEAN]

\* model = get_model(...)
GetModelCall ==
   /\ pc = "get_model"
   /\ gmout' = get_model(gmin)
   /\ pc' = "model_done"
   /\ UNCHANGED <<rng, dataVars, gdVars, tpc, weights, optimizer, loopVars, stepVars,
                  evalVars, scaleVars, kin, rows, funcVars, gmin>>

\* ---------------------------------------------------------- specifications
\* the notebook: the module-level model, then train_loop calls
Init ==
   /\ pc = "notebook"
   /\ rng \in 0..MaxStart
   /\ DataIdle
   /\ GdIdle
   /\ TlIdle
   /\ ScaleIdle
   /\ weights \in InitWeights

Next == TrainLoopCall \/ train_loop \/ get_data

Spec == Init /\ [][Next]_vars

\* a caller of train_loop that may pass a learning rate that is not a number
InitCaller ==
   /\ pc = "caller"
   /\ rng \in 0..MaxStart
   /\ DataIdle
   /\ GdIdle
   /\ TlIdle
   /\ ScaleIdle
   /\ weights \in InitWeights

SpecCaller == InitCaller /\ [][Next]_vars

\* momenta and masses of a held-out batch drawn from a mass range that
\* starts at 0
HeldOutP == {20 * Unit, 50 * Unit}
HeldOutM == {0, Unit \div 10, 46 * Unit, 50 * Unit}

\* train_loop(0, lr) at the return of get_batch(n=20000), for a get_batch
\* whose min_m is 0
InitHeldOut ==
   /\ pc = "held_out"
   /\ rng = 0
   /\ DataIdle
   /\ ScaleIdle
   /\ weights \in InitWeights
   /\ gpc = "ret"
   /\ args = [get_batch(TestBatch) EXCEPT !.min_m = 0]
   /\ p \in [1..TestBatch -> HeldOutP]
   /\ m \in [1..TestBatch -> HeldOutM]
   /\ phi = [i \in 1..TestBatch |-> 0]
   /\ eta = [i \in 1..TestBatch |-> 0]
   /\ loops = 0
   /\ drawn = [i \in 1..TestBatch |-> FALSE]
   /\ etaExit = eta
   /\ ret = [vec |-> Stack(TRUE, p, m, eta, phi), m |-> m]
   /\ tpc = "test_batch"
   /\ calls = 1 /\ n_iterations = 0 /\ it = 0
   /\ optimizer = Adam(DefaultRate)
   /\ vec = <<>> /\ truth = <<>>
   /\ x = <<>> /\ target = <<>>
   /\ tpred = <<>> /\ loss = None /\ gradients = <<>>
   /\ pred_raw = <<>> /\ pred = <<>> /\ err = <<>> /\ within = 0
   /\ result = None
   /\ batches = 1 /\ steps = 0 /\ updates = 0
   /\ applied = <<>>
   /\ wEntry = None

\* the notebook's runs, and the evaluation of such a held-out batch
SpecHeldOut == (Init \/ InitHeldOut) /\ [][Next]_vars

\* the sampler script: get_data twice from one seed
InitData ==
   /\ pc = "call1"
   /\ seed \in 0..MaxSeed
   /\ rng = seed
   /\ req \in ArgSet
   /\ first = None
   /\ second = None
   /\ GdIdle
   /\ TlIdle
   /\ ScaleIdle
   /\ weights = None

\* the kinematics script: the derived quantities of one sample
InitKin ==
   /\ pc = "kin"
   /\ rng = 0
   /\ DataIdle
   /\ GdIdle
   /\ TlIdle
   /\ v = 0 /\ scaled = None /\ there = None /\ back = None /\ forth = None
   /\ kin \in [p : UniformValues(data_spec.min_p, data_spec.max_p),
               m : UniformValues(data_spec.min_m, data_spec.max_m),
               eta : NormalValues,
               phi : UniformValues(-Pi64, Pi64)]
   /\ rows = None
   /\ FuncIdle
   /\ weights = None

NextData == DataCall \/ DataReseed \/ DataDone \/ get_data \/ KinApply

SpecData == (InitData \/ InitKin) /\ [][NextData]_vars

\* the scaling script: scale_target both ways on one value
InitScale ==
   /\ pc = "scale"
   /\ rng = 0
   /\ DataIdle
   /\ GdIdle
   /\ TlIdle
   /\ v \in {VStride * j : j \in -MaxV..MaxV}
   /\ scaled = None /\ there = None /\ back = None /\ forth = None
   /\ kin = None /\ rows = None
   /\ FuncIdle
   /\ weights = None

NextScale == ScaleOnce \/ ScaleBack

SpecScale == InitScale /\ [][NextScale]_vars

\* the gradients notebook: one call of func
InitFunc ==
   /\ pc = "func"
   /\ rng = 0
   /\ DataIdle
   /\ GdIdle
   /\ TlIdle
   /\ v = 0 /\ scaled = None /\ there = None /\ back = None /\ forth = None
   /\ kin = None /\ rows = None
   /\ fin \in [x : FuncInputs, y : FuncInputs, z : FuncInputs]
   /\ fout = None
   /\ gmin = None /\ gmout = None
   /\ weights = None

NextFunc == FuncCall

\* one call of get_model
InitModel ==
   /\ pc = "get_model"
   /\ rng = 0
   /\ DataIdle
   /\ GdIdle
   /\ TlIdle
   /\ v = 0 /\ scaled = None /\ there = None /\ back = None /\ forth = None
   /\ kin = None /\ rows = None
   /\ fin = None /\ fout = None
   /\ gmin \in ModelArgs
   /\ gmout = None
   /\ weights = None

NextModel == GetModelCall

SpecModel == InitModel /\ [][NextModel]_vars

SpecFunc == InitFunc /\ [][NextFunc]_vars

\* ================================================================== claims
\* ------------------------------------------------------- get_data (SpecData)
\* C1: for every get_data call with n >= 1 the body of the rejection loop
\* runs, and every returned eta value is the result of a normal draw
C1_EtaDrawnInLoop ==
   (gpc = "ret" /\ args.n >= 1) =>
      /\ loops >= 1
      /\ \A i \in 1..Len(drawn) : drawn[i]

\* C2: in every batch get_data returns (any n, any ranges, either basis) at
\* most 5% of the samples have |eta| > 2.5: the while loop is left only with
\* mean(|eta| > 2.5) <= 0.05, and eta is not modified after the loop
C2_OutlierFractionAtMostFivePercent ==
   gpc \in {"derive", "ret"} =>
      /\ OutlierInv * Cardinality({i \in 1..Len(eta) : eta[i] > EtaCut \/ eta[i] < -EtaCut})
            <= Len(eta)
      /\ eta = etaExit
      /\ Len(eta) = args.n
      /\ (gpc = "ret" /\ ~args.cartesian) =>
            \A i \in 1..Len(eta) : ret.vec[i][3] = eta[i]

C2_Witness ==
   /\ gpc = "ret"
   /\ args.n >= 2
   /\ ~args.cartesian
   /\ ret.vec[1][3] = eta[1]

\* the rounding a product or a square root of float32 numbers can be off by
TolEnergy(ev) == F32Step * ev + 7

\* the rounding the three momentum components can be off by together
TolSum(pv) == (pv * pv) \div 10 + 12 * pv + 20

SumSquares(row) == row[2] * row[2] + row[3] * row[3] + row[4] * row[4]

RelativisticRow(row, pv, mv) ==
   /\ row[1] >= pv
   /\ Abs(row[1] * row[1] - (pv * pv + mv * mv)) <= TolEnergy(row[1])
   /\ Abs(SumSquares(row) - pv * pv) <= TolSum(pv)
   /\ Abs(row[1] * row[1] - SumSquares(row) - mv * mv) <= TolEnergy(row[1]) + TolSum(pv)

\* C3: in every sample of a Cartesian batch the energy is at least the
\* momentum magnitude and e^2 - (px^2 + py^2 + pz^2) is m^2 of the paired
\* target up to rounding: e is sqrt(p^2 + m^2), and px^2 + py^2 + pz^2 is
\* p^2 for every eta and phi
C3_RelativisticInvariant ==
   /\ (gpc = "ret" /\ args.cartesian) =>
         \A i \in 1..Len(ret.m) : RelativisticRow(ret.vec[i], p[i], ret.m[i])
   /\ pc = "kin_done" => RelativisticRow(rows.cart, kin.p, kin.m)

C3_Witness ==
   /\ gpc = "ret"
   /\ args.cartesian
   /\ args.n >= 1
   /\ p[1] > 0
   /\ ret.m[1] > 0
   /\ ret.vec[1][1] > p[1]

InRange(a, lo, hi) == \A i \in 1..Len(a) : lo <= a[i] /\ a[i] <= hi

\* C9 as stated: in every returned batch p lies in [min_p, max_p], m in
\* [min_m, max_m] and phi in [-pi, pi], and the returned m is exactly the
\* mass the energy was derived from
C9_DrawsInsideRanges ==
   gpc = "ret" =>
      /\ InRange(p, args.min_p, args.max_p)
      /\ InRange(ret.m, args.min_m, args.max_m)
      /\ InRange(phi, -Pi64, Pi64)
      /\ \A i \in 1..Len(ret.m) : ret.vec[i][1] = Sqrt32(p[i] * p[i] + ret.m[i] * ret.m[i])

\* C9: in every returned batch p, m and phi lie between the float32 values
\* nearest to the bounds of their ranges, and the returned m is exactly the
\* mass the energy was derived from
C9_DrawsInsideRoundedRanges ==
   gpc = "ret" =>
      /\ Len(p) = args.n /\ Len(ret.m) = args.n /\ Len(phi) = args.n
      /\ InRange(p, Round32(args.min_p), Round32(args.max_p))
      /\ InRange(ret.m, Round32(args.min_m), Round32(args.max_m))
      /\ InRange(phi, Round32(-Pi64), Round32(Pi64))
      /\ ret.m = m
      /\ \A i \in 1..Len(ret.m) : ret.vec[i][1] = Sqrt32(p[i] * p[i] + ret.m[i] * ret.m[i])

C9_Witness ==
   /\ gpc = "ret"
   /\ \E i \in 1..Len(phi) : phi[i] < -Pi64
   /\ \E i \in 1..Len(p) : p[i] > args.min_p /\ p[i] < args.max_p

\* C10: two get_data calls with the same arguments from the same generator
\* state return identical (vectors, masses), and for every n the result has
\* exactly n rows of 4 components and n masses
C10_DeterministicGivenSeed ==
   /\ pc = "done" => first = second
   /\ gpc = "ret" =>
         /\ Len(ret.vec) = args.n
         /\ \A i \in 1..Len(ret.vec) : Len(ret.vec[i]) = 4
         /\ Len(ret.m) = args.n

C10_Witness ==
   /\ pc = "done"
   /\ req.n >= 2
   /\ first.m[1] # first.m[2]
   /\ first.vec = second.vec

\* --------------------------------------------------- scale_target (SpecScale)
MassSpan == data_spec.max_m - data_spec.min_m

\* the forward map is (v - target_mu) / target_sigma, target_mu the midpoint
\* of the mass range and target_sigma = (max_m - min_m) / sqrt(12)
ForwardMap ==
   /\ 2 * target_mu = data_spec.min_m + data_spec.max_m
   /\ Abs(12 * target_sigma * target_sigma - MassSpan * MassSpan)
         <= (MassSpan * MassSpan) \div 200
   /\ 2 * Abs(scaled * Round32(target_sigma) - (v - Round32(target_mu)) * Unit)
         <= F32Step * Round32(target_sigma)

\* C4 as stated: for every v, inside or outside [min_m, max_m],
\* scale_target(scale_target(v), rescale=True) == v and
\* scale_target(scale_target(v, rescale=True)) == v, the forward map being
\* (v - target_mu) / target_sigma
C4_RoundTripExact ==
   pc = "done" =>
      /\ back = v
      /\ forth = v
      /\ ForwardMap

\* the rounding of the scaled value, as the inverse map magnifies it, and the
\* rounding of the inverse map
RoundTripTol == (F32Step * Round32(target_sigma)) \div (2 * Unit) + F32Step

\* C4: for every v, inside or outside [min_m, max_m], both round trips
\* through scale_target return v up to floating-point rounding, the forward
\* map being (v - target_mu) / target_sigma
C4_RoundTripUpToRounding ==
   pc = "done" =>
      /\ Abs(back - v) <= RoundTripTol
      /\ Abs(forth - v) <= RoundTripTol
      /\ ForwardMap

C4_Witness ==
   /\ pc = "done"
   /\ v > data_spec.max_m
   /\ back # v
   /\ forth = v

\* ---------------------------------------------- train_step, train_loop (Spec)
InTrainStep == tpc \in {"ts_forward", "ts_gradient", "ts_apply", "ts_return"}

\* C5: each train_step call makes exactly one apply_gradients call, which
\* pairs one gradient with every trainable variable of the model, the
\* gradients being those of the loss of this call's batch; no call makes
\* zero or more than one update
C5_OneUpdatePerTrainStep ==
   /\ tpc \in {"ts_forward", "ts_gradient", "ts_apply"} =>
         /\ applied = <<>>
         /\ updates = steps - 1
   /\ tpc = "ts_return" =>
         /\ Len(applied) = 1
         /\ updates = steps
         /\ Len(applied[1]) = Len(trainable_variables)
         /\ \A j \in 1..Len(trainable_variables) :
               /\ j <= Len(applied[1])
               /\ applied[1][j][2] = trainable_variables[j]
               /\ applied[1][j][1] = gradient(wEntry, x, target, trainable_variables)[j]
         /\ x = ret.vec
         /\ optimizer.iterations = steps
   /\ ~InTrainStep => updates = steps

C5_Witness ==
   /\ tpc = "ts_return"
   /\ steps = 2
   /\ Len(applied) = 1
   /\ \E j \in 1..Len(applied[1]) : applied[1][j][1] # 0
   /\ weights # wEntry

EvalPcs == {"test_batch", "rescale", "metric", "plots"}

\* C6: train_loop(n_iterations, lr) runs exactly n_iterations training
\* steps, each on a freshly drawn batch of 64 samples with scaled targets,
\* and draws and evaluates the held-out batch of 20000 only after the last
\* step; for n_iterations = 0 no update happens and the evaluation still runs
C6_ExactlyNIterationsThenEvaluation ==
   /\ tpc # "idle" => steps <= n_iterations
   /\ InTrainStep =>
         /\ batches = steps
         /\ args.n = TrainBatch
         /\ x = ret.vec
         /\ Len(x) = TrainBatch
         /\ target = [i \in 1..TrainBatch |-> scale_target(ret.m[i], FALSE)]
   /\ tpc \in EvalPcs \cup {"returned"} =>
         /\ steps = n_iterations
         /\ updates = n_iterations
         /\ optimizer.iterations = n_iterations
         /\ batches = n_iterations + 1
         /\ args.n = TestBatch
   /\ (tpc # "for" /\ args # None /\ args.n = TestBatch) => steps = n_iterations
   /\ tpc = "returned" =>
         /\ result # None
         /\ Len(pred_raw) = TestBatch
         /\ n_iterations = 0 => updates = 0

C6_Witness ==
   /\ tpc = "returned"
   /\ n_iterations = 2
   /\ steps = 2
   /\ result # None

\* C7: from the end of the last training step until train_loop returns, the
\* model's parameters and the optimizer state are unchanged
C7_EvaluationIsInferenceOnly ==
   [][((tpc = "for" /\ it = n_iterations) \/ tpc \in EvalPcs)
         => (weights' = weights /\ optimizer' = optimizer)]_vars

C7_Witness ==
   /\ tpc = "returned"
   /\ updates >= 1
   /\ Len(pred_raw) = TestBatch
   /\ weights \notin InitWeights

\* C8: the printed metric is the fraction of the held-out samples with
\* |(pred - truth) / truth| < 0.10 (strict), pred being the model output
\* rescaled by scale_target(..., rescale=True) and truth the unscaled true
\* mass; the returned (pred, truth) is in physical units and both have the
\* held-out batch length
C8_MetricWithinTenPercent ==
   tpc \in {"plots", "returned"} =>
      /\ Len(pred) = TestBatch /\ Len(truth) = TestBatch /\ Len(pred_raw) = TestBatch
      /\ truth = ret.m
      /\ \A i \in 1..TestBatch :
            /\ pred_raw[i] = Forward(weights, ret.vec[i])
            /\ pred[i] = Mul32(pred_raw[i], Round32(target_sigma)) + Round32(target_mu)
      /\ \A i \in 1..TestBatch :
            truth[i] # 0 =>
               /\ 10 * Abs(pred[i] - truth[i]) < Abs(truth[i]) => 10 * Abs(err[i]) < ErrUnit
               /\ 10 * Abs(pred[i] - truth[i]) > Abs(truth[i]) => 10 * Abs(err[i]) >= ErrUnit
               /\ Abs(err[i] * truth[i]) <= Abs(pred[i] - truth[i]) * ErrUnit
               /\ Abs(pred[i] - truth[i]) * ErrUnit < (Abs(err[i]) + 2) * Abs(truth[i])
      /\ within = Cardinality({i \in 1..TestBatch :
                                 truth[i] # 0 /\ 10 * Abs(err[i]) < ErrUnit})
      /\ tpc = "returned" => result = [pred |-> pred, truth |-> ret.m]

C8_Witness ==
   /\ tpc = "returned"
   /\ within >= 1
   /\ within < TestBatch
   /\ \E i \in 1..TestBatch :
         /\ truth[i] # 0
         /\ 10 * Abs(pred[i] - truth[i]) = Abs(truth[i])
         /\ 10 * Abs(err[i]) = ErrUnit

\* ------------------------------------------- get_data, continued (SpecData)
\* the columns of a returned batch: (e, px, py, pz) with the flag set,
\* (e, pt, eta, phi) without it
BasisColumns ==
   gpc = "ret" =>
      /\ ret.m = m
      /\ \A i \in 1..Len(ret.vec) :
            /\ ret.vec[i][1] = Sqrt32(p[i] * p[i] + m[i] * m[i])
            /\ args.cartesian =>
                  /\ ret.vec[i][2] = Mul32(Pt(p[i], eta[i]), Cos32(phi[i]))
                  /\ ret.vec[i][3] = Mul32(Pt(p[i], eta[i]), Sin32(phi[i]))
                  /\ ret.vec[i][4] = Mul32(p[i], Sin32(Theta(eta[i])))
            /\ ~args.cartesian =>
                  /\ ret.vec[i][2] = Mul32(p[i], Cos32(Theta(eta[i])))
                  /\ ret.vec[i][3] = eta[i]
                  /\ ret.vec[i][4] = phi[i]

\* one sample in both bases: the same energy, eta and phi as drawn
SameSample ==
   pc = "kin_done" =>
      /\ rows.cart[1] = rows.cyl[1]
      /\ rows.cyl[3] = kin.eta
      /\ rows.cyl[4] = kin.phi

\* C11 as stated: the flag alone selects the columns, both bases carry the
\* same energy and masses for the same draws, and pt^2 = px^2 + py^2
C11_BasisExact ==
   /\ BasisColumns
   /\ SameSample
   /\ pc = "kin_done" =>
         rows.cyl[2] * rows.cyl[2]
            = rows.cart[2] * rows.cart[2] + rows.cart[3] * rows.cart[3]

\* C11: the flag alone selects the columns, both bases carry the same
\* energy and masses for the same draws, and pt^2 is px^2 + py^2 up to the
\* rounding of the float32 products
C11_BasisUpToRounding ==
   /\ BasisColumns
   /\ SameSample
   /\ pc = "kin_done" =>
         Abs(rows.cyl[2] * rows.cyl[2]
               - (rows.cart[2] * rows.cart[2] + rows.cart[3] * rows.cart[3]))
            <= TolSum(Abs(rows.cyl[2]))

C11_Witness ==
   /\ pc = "kin_done"
   /\ kin.eta # 0
   /\ rows.cyl[2] # 0
   /\ rows.cart[2] # 0 /\ rows.cart[3] # 0
   /\ rows.cyl[2] * rows.cyl[2]
         # rows.cart[2] * rows.cart[2] + rows.cart[3] * rows.cart[3]

\* C12: with min_p = max_p get_data still returns a valid batch: every
\* sample's momentum magnitude is that single value (as a float32), so that
\* px^2 + py^2 + pz^2 is the same for all samples up to rounding, and the
\* energy-mass relation holds
C12_CollapsedMomentumRange ==
   (gpc = "ret" /\ args.min_p = args.max_p) =>
      /\ Len(p) = args.n /\ Len(ret.vec) = args.n /\ Len(ret.m) = args.n
      /\ \A i \in 1..Len(p) :
            /\ p[i] = Round32(args.min_p)
            /\ Len(ret.vec[i]) = 4
            /\ ret.vec[i][1] >= p[i]
            /\ Abs(ret.vec[i][1] * ret.vec[i][1] - (p[i] * p[i] + ret.m[i] * ret.m[i]))
                  <= TolEnergy(ret.vec[i][1])
      /\ args.cartesian =>
            \A i, j \in 1..Len(ret.vec) :
               /\ Abs(SumSquares(ret.vec[i]) - SumSquares(ret.vec[j]))
                     <= 2 * TolSum(Round32(args.min_p))
               /\ Abs(ret.vec[i][1] * ret.vec[i][1] - SumSquares(ret.vec[i])
                        - ret.m[i] * ret.m[i])
                     <= TolEnergy(ret.vec[i][1]) + TolSum(p[i])

C12_Witness ==
   /\ gpc = "ret"
   /\ args.min_p = args.max_p
   /\ args.min_p > 0
   /\ args.cartesian
   /\ args.n >= 2
   /\ p[1] = p[2]
   /\ ret.m[1] # ret.m[2]
   /\ ret.vec[1][1] # ret.vec[2][1]

\* C13: the rejection loop has no iteration cap and get_data terminates only
\* under an assumption on the random draws: a call with n >= 1 leaves the
\* while loop only after normal draws have brought the outliers to 5% or less
C13_ExitDependsOnDraws ==
   (gpc \in {"derive", "ret"} /\ args.n >= 1) =>
      /\ loops >= 1
      /\ \E i \in 1..Len(drawn) : drawn[i]

\* ------------------------------- train_step, train_loop, continued
\* the loss or a gradient of the running train_step call is not a number
NonFiniteStep ==
   \/ ~Finite(loss)
   \/ \E j \in 1..Len(gradients) : ~Finite(gradients[j])

\* C14: when the loss or a gradient of a batch is non-finite, train_step
\* still applies its single update with those gradients and returns the
\* non-finite loss, and train_loop goes on with the next iteration: it
\* neither stops nor repeats the step
C14_NonFinitePropagates ==
   /\ (tpc = "ts_return" /\ NonFiniteStep) =>
         /\ Len(applied) = 1
         /\ Len(applied[1]) = Len(trainable_variables)
         /\ \A j \in 1..Len(applied[1]) :
               /\ applied[1][j] = <<gradients[j], trainable_variables[j]>>
               /\ Len(optimizer.given[trainable_variables[j]]) = steps
               /\ optimizer.given[trainable_variables[j]][steps] = gradients[j]
         /\ optimizer.iterations = steps
         /\ updates = steps
         /\ ~Finite(tpred[1]) => ~Finite(loss)
   /\ tpc = "for" => (it = steps /\ batches = steps /\ it <= n_iterations)
   /\ tpc \in {"train_batch", "ts_forward", "ts_gradient", "ts_apply", "ts_return"} =>
         (it = steps - (IF tpc = "train_batch" THEN 0 ELSE 1) /\ batches = it + 1)
   /\ tpc \in EvalPcs \cup {"returned"} => (steps = n_iterations /\ it = n_iterations)

C14_Witness ==
   /\ tpc = "ts_return"
   /\ calls = 2
   /\ steps = 2
   /\ ~Finite(wEntry.k1)
   /\ ~Finite(loss)
   /\ \A j \in 1..Len(gradients) : ~Finite(gradients[j])
   /\ Len(applied) = 1

\* C15: the relative error has no guard on its denominator: a held-out
\* sample whose true mass is 0 gets a non-finite relative error, nothing is
\* raised, and the sample is counted as not within the 10% threshold; with
\* the notebook's data_spec (min_m = 0.1 > 0) every true mass is >= min_m
\* and a zero denominator does not occur
C15_ZeroMassNotCounted ==
   /\ data_spec.min_m > 0
   /\ pc = "notebook" =>
         /\ \A i \in 1..Len(truth) : truth[i] >= data_spec.min_m
         /\ gpc = "ret" => \A i \in 1..Len(ret.m) : ret.m[i] >= data_spec.min_m
         /\ tpc \in {"plots", "returned"} => \A i \in 1..Len(err) : Finite(err[i])
   /\ tpc \in {"plots", "returned"} =>
         /\ Len(err) = Len(truth)
         /\ \A i \in 1..Len(truth) : truth[i] = 0 => ~Finite(err[i])
         /\ within = Cardinality({i \in 1..Len(truth) :
                        /\ truth[i] # 0
                        /\ 10 * Abs(err[i]) < ErrUnit})
         /\ \A i \in 1..Len(truth) :
               (truth[i] # 0 /\ 10 * Abs(pred[i] - truth[i]) # Abs(truth[i])) =>
                  (10 * Abs(err[i]) < ErrUnit
                      <=> 10 * Abs(pred[i] - truth[i]) < Abs(truth[i]))
   /\ (tpc = "returned" /\ pc = "held_out") => result = [pred |-> pred, truth |-> truth]

C15_Witness ==
   /\ pc = "held_out"
   /\ tpc = "returned"
   /\ \E i \in 1..Len(truth) : truth[i] = 0 /\ ~Finite(err[i])
   /\ within >= 1
   /\ result # None

\* ------------------------------------------------ func (SpecFunc)
\* C16: func(x, y, z) returns f = (x + y) * z and the gradients
\* [df/dx, df/dy, df/dz] = [z, z, x + y] for every input triple; for
\* (-2, 5, -4) the gradients are [-4, -4, 3]
C16_FuncGradients ==
   pc = "func_done" =>
      /\ 2 * Abs(fout.f * Unit - (fin.x + fin.y) * fin.z) <= F32Step * Unit
      /\ fout.gradients = <<fin.z, fin.z, fin.x + fin.y>>
      /\ fin = [x |-> -2 * Unit, y |-> 5 * Unit, z |-> -4 * Unit] =>
            /\ fout.gradients = <<-4 * Unit, -4 * Unit, 3 * Unit>>
            /\ fout.f = -12 * Unit

C16_Witness ==
   /\ pc = "func_done"
   /\ fin = [x |-> -2 * Unit, y |-> 5 * Unit, z |-> -4 * Unit]
   /\ fout.gradients = <<-4 * Unit, -4 * Unit, 3 * Unit>>

\* ------------------------------------------- get_data, continued (SpecData)
\* the rounding of theta = pi / 2 and of one float32 product
TolAngle(pv) == pv \div 20 + F32Step

\* C17: the transverse momentum is p * sin(theta) and pz is p * cos(theta)
\* with theta = 2 * arctan(exp(-eta)), so that a sample with eta = 0 has
\* pt = p and pz = 0
C17_StandardConvention ==
   /\ pc = "kin_done" =>
         /\ Abs(rows.cyl[2] - Mul32(kin.p, Sin32(Theta(kin.eta)))) <= F32Step
         /\ Abs(rows.cart[4] - Mul32(kin.p, Cos32(Theta(kin.eta)))) <= F32Step
         /\ kin.eta = 0 =>
               /\ Abs(rows.cyl[2] - kin.p) <= TolAngle(kin.p)
               /\ Abs(rows.cart[4]) <= TolAngle(kin.p)
   /\ gpc = "ret" =>
         \A i \in 1..Len(ret.vec) :
            eta[i] = 0 =>
               IF args.cartesian
               THEN Abs(ret.vec[i][4]) <= TolAngle(p[i])
               ELSE Abs(ret.vec[i][2] - p[i]) <= TolAngle(p[i])

\* ------------------------------- train_step, train_loop, continued (Spec)
\* C18: the model is one module-level object shared by all train_loop calls
\* and the optimizer is created anew in each call: a call starts with the
\* parameters the call before it ended with, and with an optimizer whose
\* step count and moment estimates are those of a new optimizer
C18_ModelSharedOptimizerFresh ==
   [][(tpc \in {"idle", "returned"} /\ tpc' \notin {"idle", "returned"}) =>
         /\ calls' = calls + 1
         /\ weights' = weights
         /\ optimizer'.iterations = 0
         /\ \A u \in VarNames :
               /\ optimizer'.given[u] = <<>>
               /\ Moments(optimizer'.given[u]).num = 0
               /\ Moments(optimizer'.given[u]).v = 0
         /\ steps' = 0 /\ updates' = 0]_vars

C18_Witness ==
   /\ calls = 2
   /\ tpc = "for"
   /\ it = 0
   /\ weights \notin InitWeights
   /\ optimizer.iterations = 0
   /\ \A u \in VarNames : Moments(optimizer.given[u]).num = 0

\* the squared error of row i of train_step's batch at parameters w
SquaredError(w, i) ==
   Mul32(Forward(w, x[i]) - target[i], Forward(w, x[i]) - target[i])

\* C19: within train_step the order is forward pass, loss, gradients,
\* update: the loss a call returns is the mean squared error between the
\* prediction and the scaled target at the parameters as they were before
\* this call's update, never at the updated parameters
C19_LossBeforeUpdate ==
   /\ tpc \in {"ts_gradient", "ts_apply", "ts_return"} =>
         /\ Len(tpred) = Len(x)
         /\ \A i \in 1..Len(x) : tpred[i] = Forward(wEntry, x[i])
         /\ loss = Mean32([i \in 1..Len(x) |-> SquaredError(wEntry, i)])
         /\ target = [i \in 1..Len(x) |-> scale_target(truth[i], FALSE)]
   /\ tpc \in {"ts_forward", "ts_gradient", "ts_apply"} =>
         /\ weights = wEntry
         /\ applied = <<>>
   /\ tpc = "ts_forward" => (tpred = <<>> /\ gradients = <<>>)
   /\ tpc = "ts_gradient" => gradients = <<>>
   /\ tpc \in {"ts_apply", "ts_return"} => Len(gradients) = Len(trainable_variables)
   /\ tpc = "ts_return" =>
         /\ Len(applied) = 1
         /\ \A u \in VarNames : Abs(weights[u] - wEntry[u]) <= optimizer.lr

C19_Witness ==
   /\ tpc = "ts_return"
   /\ weights # wEntry
   /\ loss # 0
   /\ loss = Mean32([i \in 1..Len(x) |-> SquaredError(wEntry, i)])
   /\ loss # Mean32([i \in 1..Len(x) |-> SquaredError(weights, i)])

\* ------------------------------------------------ get_model (SpecModel)
\* positions of the layers of a kind in the returned model
Positions(kind) == {i \in 1..Len(gmout) : gmout[i].kind = kind}

\* position of the first layer after the input and its batch normalization
FirstHidden == IF gmin.batch_norm_first THEN 3 ELSE 2

\* the batch normalizations of the hidden layers
HiddenNorms == {i \in Positions("BatchNormalization") : i > FirstHidden}

\* the hidden Dense layers: every Dense layer but the last
HiddenDense == {i \in Positions("Dense") : i < Len(gmout)}

\* C20: get_model builds exactly n_layers hidden Dense layers followed by
\* one single-unit linear output Dense layer; with 'selu' no hidden layer
\* gets batch normalization even if batch_norm=True (the input batch
\* normalization of batch_norm_first is still applied); otherwise with
\* batch_norm=True each hidden layer gets exactly one, between Dense and
\* Activation except for 'relu', where it follows the Activation; with
\* batch_norm=False no hidden layer gets any
C20_GetModelLayers ==
   pc = "model_done" =>
      /\ gmout[1].kind = "Input" /\ gmout[1].units = gmin.n_inputs
      /\ gmout[Len(gmout)].kind = "Dense"
      /\ gmout[Len(gmout)].units = 1
      /\ gmout[Len(gmout)].activation = "linear"
      /\ Cardinality(HiddenDense) = gmin.n_layers
      /\ Cardinality(Positions("Activation")) = gmin.n_layers
      /\ \A i \in HiddenDense : gmout[i].units = gmin.n_units
      /\ (2 \in Positions("BatchNormalization")) = gmin.batch_norm_first
      /\ Positions("BatchNormalization") \ {2} = HiddenNorms
      /\ gmin.activation = "selu" => HiddenNorms = {}
      /\ ~gmin.batch_norm => HiddenNorms = {}
      /\ (gmin.batch_norm /\ gmin.activation # "selu") =>
            /\ Cardinality(HiddenNorms) = gmin.n_layers
            /\ \A i \in HiddenDense :
                  IF gmin.activation = "relu"
                  THEN /\ gmout[i + 1] = [kind |-> "Activation", units |-> 0,
                                          activation |-> "relu"]
                       /\ i + 2 \in HiddenNorms
                  ELSE /\ i + 1 \in HiddenNorms
                       /\ gmout[i + 2] = [kind |-> "Activation", units |-> 0,
                                          activation |-> gmin.activation]
      /\ (~gmin.batch_norm \/ gmin.activation = "selu") =>
            \A i \in HiddenDense : gmout[i + 1].kind = "Activation"

C20_Witness ==
   /\ pc = "model_done"
   /\ gmin.activation = "selu"
   /\ gmin.batch_norm
   /\ gmin.batch_norm_first
   /\ gmin.n_layers = 2
   /\ Positions("BatchNormalization") = {2}
   /\ Len(gmout) = 7

====
